---- MODULE Spec2Model ----
(***************************************************************************)
(* A model of main.py: the atom applier apply_state_changes, the           *)
(* end-condition evaluator check_end_conditions and the turn loop of main. *)
(*                                                                         *)
(* Python objects that are shared by reference (the inventory list and the *)
(* flags dict) live in `heap`; a state dict holds references to them, so   *)
(* that the shallow copies of lines 96 and 218 alias as they do in Python. *)
(***************************************************************************)
EXTENDS Integers, Sequences, FiniteSets, TLC

VARIABLES
  pc,        \* position of main: "start", "loop", "backend", "over", "quit", "exited", "crashed"
  files,     \* which of rules.json and prompts/gm.txt exist at startup
  state,     \* the dict bound to main's `state` (scalars and references)
  heap,      \* contents of the list and dict objects referenced by state and by rules["START"]
  saveFile,  \* contents of save.json
  outcome,   \* the status main reported at game over
  calls,     \* number of call_ollama invocations so far
  call,      \* record of the latest apply_state_changes call
  used,      \* number of atoms given to apply_state_changes so far
  saved,     \* the value of state at the latest save command of this session
  request    \* the user_context of the latest call_ollama invocation

vars == <<pc, files, state, heap, saveFile, outcome, calls, call, used, saved, request>>

-----------------------------------------------------------------------------
(* Bounds of the model *)

\* largest hp the model follows (hp_delta has no upper clamp in the code)
HpMax == 2
\* number of atoms given to apply_state_changes in one run of passes
MaxAtoms == 2
\* longest atom list the backend returns in a session
MaxSessionAtoms == 1
\* number of backend invocations followed in one session
MaxCalls == 3
\* rules["INVENTORY_LIMIT"] of the rule set used
InventoryLimit == 2
\* rules["END_CONDITIONS"]["MAX_TURNS"] of the rule set used
MaxTurns == 2

-----------------------------------------------------------------------------
(* Values *)

\* Python's None: the value dict.get returns for an absent field
NoneVal == "<None>"

\* the rule set read from rules.json (the scenario of the specification:
\* the cave is locked behind has_torch)
Rules ==
  [ INVENTORY_LIMIT |-> InventoryLimit,
    LOCKS           |-> [cave |-> "has_torch"],
    END_CONDITIONS  |-> [ MAX_TURNS      |-> MaxTurns,
                          LOSE_ANY_FLAGS |-> <<"hp_zero">>,
                          WIN_ALL_FLAGS  |-> <<"has_torch", "quest_done">> ],
    START           |-> [ location  |-> "start", hp |-> 1,
                          inventory |-> "START.inventory",
                          flags     |-> "START.flags" ] ]

\* contents of the objects of rules["START"] as loaded from rules.json
StartInventory == <<>>
StartFlags == {}

\* a backend atom: a JSON value that is a dict (isDict) with the fields
\* change.get reads, or any other JSON value
Atom(kind, target, item, flag, deltaKind, delta) ==
  [ isDict |-> TRUE, atom |-> kind, target |-> target, item |-> item,
    flag |-> flag, deltaKind |-> deltaKind, delta |-> delta ]

move_to(t)     == Atom("move_to", t, NoneVal, NoneVal, "absent", 0)
add_item(i)    == Atom("add_item", NoneVal, i, NoneVal, "absent", 0)
remove_item(i) == Atom("remove_item", NoneVal, i, NoneVal, "absent", 0)
set_flag(f)    == Atom("set_flag", NoneVal, NoneVal, f, "absent", 0)
hp_delta(d)    == Atom("hp_delta", NoneVal, NoneVal, NoneVal, "int", d)
\* hp_delta without a delta field
hp_delta_absent == Atom("hp_delta", NoneVal, NoneVal, NoneVal, "absent", 0)
\* hp_delta whose delta is a non-numeric string
hp_delta_text  == Atom("hp_delta", NoneVal, NoneVal, NoneVal, "text", 0)
\* a dict with an unknown atom kind
unknown_atom   == Atom("dance", NoneVal, NoneVal, NoneVal, "absent", 0)
\* an atom that is not a dict
not_a_dict     == [Atom(NoneVal, NoneVal, NoneVal, NoneVal, "absent", 0) EXCEPT !.isDict = FALSE]

\* the `changes` argument: a list of atoms, or a value that is not a list
ListOf(atoms) == [isList |-> TRUE, atoms |-> atoms]
NotAList == [isList |-> FALSE, atoms |-> <<>>]

-----------------------------------------------------------------------------
(* Sequence helpers *)

Last(s) == s[Len(s)]

\* `x in list`
Contains(s, x) == \E i \in 1..Len(s) : s[i] = x

\* list.remove(x): deletes the first occurrence
RECURSIVE ListRemove(_, _)
ListRemove(s, x) ==
  IF s = <<>> THEN <<>>
  ELSE IF Head(s) = x THEN Tail(s)
  ELSE <<Head(s)>> \o ListRemove(Tail(s), x)

NoDuplicates(s) == \A i, j \in 1..Len(s) : s[i] = s[j] => i = j

\* all sequences over S of length at most n
RECURSIVE SeqsUpTo(_, _)
SeqsUpTo(S, n) ==
  IF n = 0 THEN {<<>>}
  ELSE LET shorter == SeqsUpTo(S, n - 1)
       IN  shorter \cup {Append(s, x) : s \in shorter, x \in S}

-----------------------------------------------------------------------------
(* apply_state_changes (lines 86-149) *)

\* The locals of one pass: new_state's scalars, the contents of the list
\* `inventory` and of the dict `flags` (its key set; every value is True),
\* and whether an exception has left the loop.
Cfg(location, hp, inventory, flags) ==
  [ location |-> location, hp |-> hp, inventory |-> inventory,
    flags |-> flags, raised |-> FALSE ]

\* move_to without the lock check of lines 111-115
move_to_unlocked(cfg, change, rules) ==
  [cfg EXCEPT !.location = change.target]

\* lines 108-116
move_to_branch(cfg, change, rules) ==
  LET target == change.target
  IN  IF target \in DOMAIN rules.LOCKS /\ rules.LOCKS[target] \notin cfg.flags
      THEN cfg
      ELSE [cfg EXCEPT !.location = target]

\* add_item without the limit check of lines 120-122
add_item_nolimit(cfg, change, rules) ==
  IF ~Contains(cfg.inventory, change.item)
  THEN [cfg EXCEPT !.inventory = Append(@, change.item)]
  ELSE cfg

\* lines 118-124
add_item_branch(cfg, change, rules) ==
  LET item == change.item
  IN  IF Len(cfg.inventory) >= rules.INVENTORY_LIMIT THEN cfg
      ELSE IF ~Contains(cfg.inventory, item)
      THEN [cfg EXCEPT !.inventory = Append(@, item)]
      ELSE cfg

\* remove_item that drops the first item held (inventory.pop(0)) instead of
\* the item named
remove_item_pop(cfg, change, rules) ==
  IF Contains(cfg.inventory, change.item)
  THEN [cfg EXCEPT !.inventory = Tail(@)]
  ELSE cfg

\* lines 126-129
remove_item_branch(cfg, change, rules) ==
  LET item == change.item
  IN  IF Contains(cfg.inventory, item)
      THEN [cfg EXCEPT !.inventory = ListRemove(@, item)]
      ELSE cfg

\* lines 131-133
set_flag_branch(cfg, change, rules) ==
  [cfg EXCEPT !.flags = @ \cup {change.flag}]

\* hp_delta that clamps without line 141
hp_delta_noflag(cfg, change, rules) ==
  IF change.deltaKind = "text" THEN [cfg EXCEPT !.raised = TRUE]
  ELSE LET delta == IF change.deltaKind = "absent" THEN 0 ELSE change.delta
           hp    == cfg.hp + delta
       IN  IF hp <= 0 THEN [cfg EXCEPT !.hp = 0] ELSE [cfg EXCEPT !.hp = hp]

\* hp_delta whose clamp replaces the flags by {"hp_zero"}
hp_delta_resetflags(cfg, change, rules) ==
  IF change.deltaKind = "text" THEN [cfg EXCEPT !.raised = TRUE]
  ELSE LET delta == IF change.deltaKind = "absent" THEN 0 ELSE change.delta
           hp    == cfg.hp + delta
       IN  IF hp <= 0
           THEN [cfg EXCEPT !.hp = 0, !.flags = {"hp_zero"}]
           ELSE [cfg EXCEPT !.hp = hp]

\* hp_delta that sets the flag of line 141 without the clamp of line 140
hp_delta_noclamp(cfg, change, rules) ==
  IF change.deltaKind = "text" THEN [cfg EXCEPT !.raised = TRUE]
  ELSE LET delta == IF change.deltaKind = "absent" THEN 0 ELSE change.delta
           hp    == cfg.hp + delta
       IN  IF hp <= 0
           THEN [cfg EXCEPT !.hp = hp, !.flags = @ \cup {"hp_zero"}]
           ELSE [cfg EXCEPT !.hp = hp]

\* hp_delta that takes hp_zero back when hp is above 0 again
hp_delta_unsets(cfg, change, rules) ==
  IF change.deltaKind = "text" THEN [cfg EXCEPT !.raised = TRUE]
  ELSE LET delta == IF change.deltaKind = "absent" THEN 0 ELSE change.delta
           hp    == cfg.hp + delta
       IN  IF hp <= 0
           THEN [cfg EXCEPT !.hp = 0, !.flags = @ \cup {"hp_zero"}]
           ELSE [cfg EXCEPT !.hp = hp, !.flags = @ \ {"hp_zero"}]

\* lines 135-141: int() raises ValueError on a non-numeric string
hp_delta_branch(cfg, change, rules) ==
  IF change.deltaKind = "text" THEN [cfg EXCEPT !.raised = TRUE]
  ELSE LET delta == IF change.deltaKind = "absent" THEN 0 ELSE change.delta
           hp    == cfg.hp + delta
       IN  IF hp <= 0
           THEN [cfg EXCEPT !.hp = 0, !.flags = @ \cup {"hp_zero"}]
           ELSE [cfg EXCEPT !.hp = hp]

\* the body of the for loop, lines 100-144
apply_atom(cfg, change, rules) ==
  IF ~change.isDict THEN cfg
  ELSE CASE change.atom = "move_to"     -> move_to_branch(cfg, change, rules)
         [] change.atom = "add_item"    -> add_item_branch(cfg, change, rules)
         [] change.atom = "remove_item" -> remove_item_branch(cfg, change, rules)
         [] change.atom = "set_flag"    -> set_flag_branch(cfg, change, rules)
         [] change.atom = "hp_delta"    -> hp_delta_branch(cfg, change, rules)
         [] OTHER                       -> cfg

\* the for loop run over the list from its last atom to its first
RECURSIVE apply_loop_reversed(_, _, _)
apply_loop_reversed(cfg, atoms, rules) ==
  IF atoms = <<>> \/ cfg.raised THEN <<cfg>>
  ELSE <<cfg>> \o apply_loop_reversed(apply_atom(cfg, Last(atoms), rules),
                                      SubSeq(atoms, 1, Len(atoms) - 1), rules)

\* the for loop of line 100: the configurations after each atom, starting
\* from cfg; an exception ends the loop
RECURSIVE apply_loop(_, _, _)
apply_loop(cfg, atoms, rules) ==
  IF atoms = <<>> \/ cfg.raised THEN <<cfg>>
  ELSE <<cfg>> \o apply_loop(apply_atom(cfg, Head(atoms), rules), Tail(atoms), rules)

\* the value of a state dict: its references followed in heap h
Deref(st, h) ==
  [ location |-> st.location, hp |-> st.hp, turns |-> st.turns,
    inventory |-> h[st.inventory], flags |-> h[st.flags] ]

\* lines 147-149: the list and the dict, updated in place, are put back
\* into new_state, which is returned
Outcome(st, h, trace) ==
  [ ret    |-> [st EXCEPT !.location = Last(trace).location, !.hp = Last(trace).hp],
    heap   |-> [h EXCEPT ![st.inventory] = Last(trace).inventory,
                         ![st.flags] = Last(trace).flags],
    raised |-> Last(trace).raised,
    trace  |-> trace ]

\* apply_state_changes without the isinstance guard of lines 89-91: the for
\* loop of line 100 raises TypeError on a value that cannot be iterated
apply_state_changes_unguarded(st, h, changes, rules) ==
  LET cfg0 == Cfg(st.location, st.hp, h[st.inventory], h[st.flags])
  IN  IF ~changes.isList
      THEN [ ret |-> st, heap |-> h, raised |-> TRUE, trace |-> <<cfg0>> ]
      ELSE IF changes.atoms = <<>>
      THEN [ ret |-> st, heap |-> h, raised |-> FALSE, trace |-> <<cfg0>> ]
      ELSE Outcome(st, h, apply_loop(cfg0, changes.atoms, rules))

\* The whole call.  st is the caller's dict, h the heap before the call.
\* ret is the dict returned (meaningless when raised), heap the heap after
\* the call: the list and the dict of the caller's state are updated in
\* place, also when the call raises.
apply_state_changes(st, h, changes, rules) ==
  LET cfg0 == Cfg(st.location, st.hp, h[st.inventory], h[st.flags])
  IN  IF ~changes.isList \/ changes.atoms = <<>>
      THEN [ ret |-> st, heap |-> h, raised |-> FALSE, trace |-> <<cfg0>> ]
      ELSE Outcome(st, h, apply_loop(cfg0, changes.atoms, rules))

\* what is recorded of a call: the arguments, the value of the caller's
\* state before and after, the configurations passed through, the result
CallRecord(st, h, changes, r) ==
  [ made     |-> TRUE,
    changes  |-> changes,
    before   |-> Deref(st, h),
    argAfter |-> Deref(st, r.heap),
    trace    |-> r.trace,
    raised   |-> r.raised,
    returned |-> Deref(r.ret, r.heap) ]

NoCall ==
  [ made     |-> FALSE,
    changes  |-> NotAList,
    before   |-> [location |-> NoneVal, hp |-> 0, turns |-> 0, inventory |-> <<>>, flags |-> {}],
    argAfter |-> [location |-> NoneVal, hp |-> 0, turns |-> 0, inventory |-> <<>>, flags |-> {}],
    trace    |-> <<>>,
    raised   |-> FALSE,
    returned |-> [location |-> NoneVal, hp |-> 0, turns |-> 0, inventory |-> <<>>, flags |-> {}] ]

-----------------------------------------------------------------------------
(* check_end_conditions (lines 152-170) *)

\* check_end_conditions with the win check moved before the lose flags
check_end_win_first(st, rules) ==
  LET end_rules == rules.END_CONDITIONS
      flags     == st.flags
  IN  IF st.turns >= end_rules.MAX_TURNS
      THEN [status |-> "lose", message |-> "out of time"]
      ELSE IF \A i \in 1..Len(end_rules.WIN_ALL_FLAGS) : end_rules.WIN_ALL_FLAGS[i] \in flags
      THEN [status |-> "win", message |-> "won"]
      ELSE IF \E i \in 1..Len(end_rules.LOSE_ANY_FLAGS) : end_rules.LOSE_ANY_FLAGS[i] \in flags
      THEN [status |-> "lose", message |-> "losing condition"]
      ELSE [status |-> "None", message |-> "None"]

\* check_end_conditions whose turn limit is reached one turn later
\* (turns > MAX_TURNS at line 158)
check_end_late(st, rules) ==
  LET end_rules == rules.END_CONDITIONS
      flags     == st.flags
  IN  IF st.turns > end_rules.MAX_TURNS
      THEN [status |-> "lose", message |-> "out of time"]
      ELSE IF \E i \in 1..Len(end_rules.LOSE_ANY_FLAGS) : end_rules.LOSE_ANY_FLAGS[i] \in flags
      THEN [status |-> "lose", message |-> "losing condition"]
      ELSE IF \A i \in 1..Len(end_rules.WIN_ALL_FLAGS) : end_rules.WIN_ALL_FLAGS[i] \in flags
      THEN [status |-> "win", message |-> "won"]
      ELSE [status |-> "None", message |-> "None"]

\* status "None" is the Python None of line 170: the game goes on
check_end_conditions(st, rules) ==
  LET end_rules == rules.END_CONDITIONS
      flags     == st.flags
  IN  IF st.turns >= end_rules.MAX_TURNS
      THEN [status |-> "lose", message |-> "out of time"]
      ELSE IF \E i \in 1..Len(end_rules.LOSE_ANY_FLAGS) : end_rules.LOSE_ANY_FLAGS[i] \in flags
      THEN [status |-> "lose", message |-> "losing condition"]
      ELSE IF \A i \in 1..Len(end_rules.WIN_ALL_FLAGS) : end_rules.WIN_ALL_FLAGS[i] \in flags
      THEN [status |-> "win", message |-> "won"]
      ELSE [status |-> "None", message |-> "None"]

-----------------------------------------------------------------------------
(* load_json / save_json (lines 14-29) *)

\* json.dump writes a dict key that is None as the string "null"
JsonKey(k) == IF k = NoneVal THEN "null" ELSE k

\* json.dump of a state value: the document written to the file.  A document
\* is kept as the value json.load reads from it: object keys are strings,
\* a null value is None.
json_dump(v) ==
  [ location |-> v.location, hp |-> v.hp, turns |-> v.turns,
    inventory |-> v.inventory, flags |-> {JsonKey(k) : k \in v.flags} ]

NoDoc == [location |-> NoneVal, hp |-> 0, turns |-> 0, inventory |-> <<>>, flags |-> {}]
\* save.json: absent, present but not valid JSON, or a document
FileAbsent  == [exists |-> FALSE, valid |-> FALSE, doc |-> NoDoc]
FileCorrupt == [exists |-> TRUE, valid |-> FALSE, doc |-> NoDoc]
FileWith(doc) == [exists |-> TRUE, valid |-> TRUE, doc |-> doc]

\* load_json: None (loaded = FALSE) when the file is absent or unparsable
load_json(file) ==
  IF ~file.exists \/ ~file.valid
  THEN [loaded |-> FALSE, value |-> NoDoc]
  ELSE [loaded |-> TRUE, value |-> file.doc]

\* save_json
save_json(data) == FileWith(json_dump(data))

-----------------------------------------------------------------------------
(* call_ollama (lines 49-65): what is sent *)

\* user_context of lines 55-59 (its RULES and STATE entries): json.dumps follows the references, so the
\* backend gets the contents of rules["START"] and of state as they are at
\* the moment of the call
user_context(st, h) ==
  [ sent  |-> TRUE,
    rules |-> [START |-> [ inventory |-> h["START.inventory"],
                           flags     |-> h["START.flags"] ]],
    state |-> Deref(st, h) ]

NoRequest ==
  [ sent  |-> FALSE,
    rules |-> [START |-> [inventory |-> <<>>, flags |-> {}]],
    state |-> NoDoc ]

-----------------------------------------------------------------------------
(* apply_state_changes on its own: any well-formed state, any atom list *)

\* atoms offered to apply_state_changes
Atoms ==
  { move_to("cave"), move_to(NoneVal),
    add_item("sword"), add_item("shield"), add_item(NoneVal), remove_item("sword"),
    set_flag("has_torch"), set_flag(NoneVal),
    hp_delta(-3), hp_delta(1), hp_delta_text,
    unknown_atom, not_a_dict }

\* the atom lists of each length
AtomLists == [n \in 0..MaxAtoms |-> {s \in SeqsUpTo(Atoms, n) : Len(s) = n}]

\* values of `changes` of at most n atoms: lists, and a value that is no list
ChangesValues(n) == {NotAList} \cup {ListOf(a) : a \in UNION {AtomLists[k] : k \in 0..n}}

\* a state dict whose list and dict are its own objects
OwnState(location, hp, turns) ==
  [ location |-> location, hp |-> hp, turns |-> turns,
    inventory |-> "state.inventory", flags |-> "state.flags" ]

NoState ==
  [ location |-> NoneVal, hp |-> 0, turns |-> 0, inventory |-> "nil", flags |-> "nil" ]

\* the heap at startup: the objects of rules["START"]
Heap0 ==
  [ a \in {"START.inventory", "START.flags", "state.inventory", "state.flags", "nil"} |->
      IF a = "START.inventory" THEN StartInventory
      ELSE IF a = "START.flags" THEN StartFlags
      ELSE IF a \in {"state.inventory"} THEN <<>>
      ELSE {} ]

WellFormedInventories ==
  {s \in SeqsUpTo({"sword", "shield", NoneVal}, InventoryLimit) : NoDuplicates(s)}

ApplyInit ==
  /\ pc = "apply"
  /\ files = [rules |-> TRUE, prompt |-> TRUE]
  /\ \E hp \in {1, HpMax} : state = OwnState("start", hp, 0)
  /\ \E inventory \in WellFormedInventories,
        flags \in SUBSET {"has_torch", "hp_zero"} :
       heap = [Heap0 EXCEPT !["state.inventory"] = inventory, !["state.flags"] = flags]
  /\ saveFile = FileAbsent
  /\ outcome = "None"
  /\ calls = 0
  /\ call = NoCall
  /\ used = 0
  /\ saved = [taken |-> FALSE, value |-> NoDoc]
  /\ request = NoRequest

\* state = apply_state_changes(state, changes, rules), pass after pass; a
\* call that raises ends the run
Apply(changes) ==
  /\ pc = "apply"
  /\ \E r \in {apply_state_changes(state, heap, changes, Rules)} :
         /\ \A i \in 1..Len(r.trace) : r.trace[i].hp <= HpMax
         /\ call' = CallRecord(state, heap, changes, r)
         /\ heap' = r.heap
         /\ IF r.raised
            THEN pc' = "raised" /\ state' = state
            ELSE pc' = pc /\ state' = r.ret
  /\ used' = used + Len(changes.atoms)
  /\ UNCHANGED <<files, saveFile, outcome, calls, saved, request>>

ApplyNext == \E changes \in ChangesValues(MaxAtoms - used) : Apply(changes)

ApplySpec == ApplyInit /\ [][ApplyNext]_vars

-----------------------------------------------------------------------------
(* main (lines 195-284) *)

\* a save.json left by an earlier session
EarlierSave ==
  [ location |-> "cave", hp |-> 1, turns |-> 0,
    inventory |-> <<"sword">>, flags |-> {"has_torch"} ]

Init ==
  /\ pc = "start"
  /\ files \in [rules : BOOLEAN, prompt : BOOLEAN]
  /\ state = NoState
  /\ heap = Heap0
  /\ saveFile \in {FileAbsent, FileCorrupt, FileWith(EarlierSave)}
  /\ outcome = "None"
  /\ calls = 0
  /\ call = NoCall
  /\ used = 0
  /\ saved = [taken |-> FALSE, value |-> NoDoc]
  /\ request = NoRequest

\* json.load builds a new dict with a new list and a new dict inside
LoadedState(value) == OwnState(value.location, value.hp, value.turns)
LoadedHeap(h, value) ==
  [h EXCEPT !["state.inventory"] = value.inventory, !["state.flags"] = value.flags]

\* lines 197-223.  load_json gives None for a missing rules.json without
\* raising; load_txt raises FileNotFoundError for a missing prompt, which
\* line 200 catches.  With rules None, line 218 or line 221 raises TypeError
\* outside the try.
Startup ==
  /\ pc = "start"
  /\ IF ~files.prompt
     THEN pc' = "exited" /\ UNCHANGED <<state, heap>>
     ELSE LET l == load_json(saveFile)
          IN  IF l.loaded
              THEN /\ state' = LoadedState(l.value)
                   /\ heap' = LoadedHeap(heap, l.value)
                   /\ pc' = IF files.rules THEN "loop" ELSE "crashed"
              ELSE IF files.rules
              THEN /\ state' = [ location |-> Rules.START.location, hp |-> Rules.START.hp,
                                 turns |-> 0, inventory |-> Rules.START.inventory,
                                 flags |-> Rules.START.flags ]
                   /\ pc' = "loop"
                   /\ UNCHANGED heap
              ELSE pc' = "crashed" /\ UNCHANGED <<state, heap>>
  /\ UNCHANGED <<files, saveFile, outcome, calls, call, used, saved, request>>

\* line 227, at the top of the loop
Status == check_end_conditions(Deref(state, heap), Rules).status

\* the loop has passed the end check and reads a line (lines 227-238)
AtPrompt == pc = "loop" /\ Status = "None"

\* lines 228-231
GameOver ==
  /\ pc = "loop"
  /\ Status # "None"
  /\ pc' = "over"
  /\ outcome' = Status
  /\ UNCHANGED <<files, state, heap, saveFile, calls, call, used, saved, request>>

\* lines 240-241
EmptyInput ==
  /\ AtPrompt
  /\ UNCHANGED vars

\* lines 243-245 (also EOF and Ctrl-C, lines 237-238)
Quit ==
  /\ AtPrompt
  /\ pc' = "quit"
  /\ UNCHANGED <<files, state, heap, saveFile, outcome, calls, call, used, saved, request>>

\* a save command that counts as a turn
SaveCountsTurn ==
  /\ AtPrompt
  /\ saveFile' = save_json(Deref(state, heap))
  /\ saved' = [taken |-> TRUE, value |-> Deref(state, heap)]
  /\ state' = [state EXCEPT !.turns = @ + 1]
  /\ UNCHANGED <<pc, files, heap, outcome, calls, call, used, request>>

\* lines 246-249
Save ==
  /\ AtPrompt
  /\ saveFile' = save_json(Deref(state, heap))
  /\ saved' = [taken |-> TRUE, value |-> Deref(state, heap)]
  /\ UNCHANGED <<pc, files, state, heap, outcome, calls, call, used, request>>

\* lines 250-257
Load ==
  /\ AtPrompt
  /\ LET loaded_state == load_json(saveFile)
     IN  IF loaded_state.loaded
         THEN /\ state' = LoadedState(loaded_state.value)
              /\ heap' = LoadedHeap(heap, loaded_state.value)
         ELSE UNCHANGED <<state, heap>>
  /\ UNCHANGED <<pc, files, saveFile, outcome, calls, call, used, saved, request>>

\* lines 258-260
Help ==
  /\ AtPrompt
  /\ UNCHANGED vars

\* lines 261-263
Inventory ==
  /\ AtPrompt
  /\ UNCHANGED vars

\* a turn that calls the backend first and counts the turn afterwards
FreeTextCallsFirst ==
  /\ AtPrompt
  /\ calls < MaxCalls
  /\ request' = user_context(state, heap)
  /\ state' = [state EXCEPT !.turns = @ + 1]
  /\ calls' = calls + 1
  /\ pc' = "backend"
  /\ UNCHANGED <<files, heap, saveFile, outcome, call, used, saved>>

\* lines 265-267: any other input counts a turn and goes to the backend
FreeText ==
  /\ AtPrompt
  /\ calls < MaxCalls
  /\ state' = [state EXCEPT !.turns = @ + 1]
  /\ request' = user_context(state', heap)
  /\ calls' = calls + 1
  /\ pc' = "backend"
  /\ UNCHANGED <<files, heap, saveFile, outcome, call, used, saved>>

\* atoms the backend sends in a session
SessionAtoms ==
  { move_to("cave"), add_item("sword"),
    set_flag("has_torch"), set_flag("quest_done"), set_flag(NoneVal),
    hp_delta(-3), hp_delta_text }

\* What call_ollama returns (lines 67-83): None after a transport error or
\* an unparsable reply; otherwise the parsed JSON, which is a dict with a
\* state_change (the default [] when absent) and a narration that is text
\* or not, or a JSON value that is not a dict.
Responses ==
  { [kind |-> k, state_change |-> NotAList, narrationIsText |-> TRUE] : k \in {"None", "other"} }
  \cup
  { [kind |-> "dict", state_change |-> c, narrationIsText |-> n] :
      c \in {NotAList} \cup {ListOf(a) : a \in SeqsUpTo(SessionAtoms, MaxSessionAtoms)},
      n \in BOOLEAN }

\* lines 267-284.  llm_response.get raises AttributeError when the response
\* is None or not a dict; an exception of apply_state_changes is not caught;
\* re.split raises TypeError for a narration that is not text, after the
\* state has been replaced.
BackendReply(llm_response) ==
  /\ pc = "backend"
  /\ IF llm_response.kind # "dict"
     THEN pc' = "crashed" /\ UNCHANGED <<state, heap, call>>
     ELSE \E r \in {apply_state_changes(state, heap, llm_response.state_change, Rules)} :
            /\ \A i \in 1..Len(r.trace) : r.trace[i].hp <= HpMax
            /\ call' = CallRecord(state, heap, llm_response.state_change, r)
            /\ heap' = r.heap
            /\ IF r.raised
               THEN pc' = "crashed" /\ state' = state
               ELSE /\ state' = r.ret
                    /\ pc' = IF llm_response.narrationIsText THEN "loop" ELSE "crashed"
  /\ UNCHANGED <<files, saveFile, outcome, calls, used, saved, request>>

Next ==
  \/ Startup
  \/ GameOver
  \/ EmptyInput
  \/ Quit
  \/ Save
  \/ Load
  \/ Help
  \/ Inventory
  \/ FreeText
  \/ \E llm_response \in Responses : BackendReply(llm_response)

Spec == Init /\ [][Next]_vars

-----------------------------------------------------------------------------
(* check_end_conditions on its own: any turn count, any flags *)

EndInit ==
  /\ pc = "evaluate"
  /\ files = [rules |-> TRUE, prompt |-> TRUE]
  /\ \E hp \in {0, 1, HpMax}, turns \in 0..(MaxTurns + 1) :
       state = OwnState("start", hp, turns)
  /\ \E flags \in SUBSET {"has_torch", "quest_done", "hp_zero"} :
       heap = [Heap0 EXCEPT !["state.flags"] = flags]
  /\ saveFile = FileAbsent
  /\ outcome = "None"
  /\ calls = 0
  /\ call = NoCall
  /\ used = 0
  /\ saved = [taken |-> FALSE, value |-> NoDoc]
  /\ request = NoRequest

\* status, message = check_end_conditions(state, rules)
Evaluate ==
  /\ pc = "evaluate"
  /\ outcome' = check_end_conditions(Deref(state, heap), Rules).status
  /\ pc' = "evaluated"
  /\ UNCHANGED <<files, state, heap, saveFile, calls, call, used, saved, request>>

EndNext == Evaluate

EndSpec == EndInit /\ [][EndNext]_vars


-----------------------------------------------------------------------------
(* Properties of apply_state_changes, checked under ApplySpec *)

\* the atoms of the latest call
CallAtoms == call.changes.atoms

\* atom i of the latest call was processed: trace[i] is the configuration
\* it met, trace[i+1] the one it left
Processed == 1..(Len(call.trace) - 1)

IsAtom(a, kind) == a.isDict /\ a.atom = kind

\* C1: apply_state_changes never raises: the call returns a state and every
\* atom of the list is processed, whatever atoms precede it.
C1_NeverRaises ==
  call.made =>
    /\ ~call.raised
    /\ call.changes.isList => Len(call.trace) = Len(CallAtoms) + 1

\* C2: the state value the caller passed in is the same after the call as
\* before it.
C2_CallerStateUnchanged ==
  call.made => call.argAfter = call.before

\* C5: in every configuration a pass goes through, and in the state it
\* leaves, the inventory has no duplicate and at most INVENTORY_LIMIT items.
C5_InventoryWellFormed ==
  /\ NoDuplicates(heap[state.inventory])
  /\ Len(heap[state.inventory]) <= Rules.INVENTORY_LIMIT
  /\ \A i \in 1..Len(call.trace) :
       /\ NoDuplicates(call.trace[i].inventory)
       /\ Len(call.trace[i].inventory) <= Rules.INVENTORY_LIMIT

\* add_item atoms filled the inventory and a further one, naming an item not
\* held, met it full
C5_Witness ==
  /\ call.made
  /\ Len(call.before.inventory) < Rules.INVENTORY_LIMIT
  /\ \E i \in Processed :
       /\ IsAtom(CallAtoms[i], "add_item")
       /\ Len(call.trace[i].inventory) = Rules.INVENTORY_LIMIT
       /\ ~Contains(call.trace[i].inventory, CallAtoms[i].item)

\* an add_item atom named an item already held while there was room
C5_WitnessDuplicate ==
  /\ call.made
  /\ \E i \in Processed :
       /\ IsAtom(CallAtoms[i], "add_item")
       /\ Len(call.trace[i].inventory) < Rules.INVENTORY_LIMIT
       /\ Contains(call.trace[i].inventory, CallAtoms[i].item)

\* C6: a move_to atom whose target is locked leaves location alone when the
\* required flag is absent at the moment it is processed, and sets location
\* to the target when the flag is present at that moment.
C6_LockedMove ==
  \A i \in Processed :
    LET a == CallAtoms[i]
    IN  (IsAtom(a, "move_to") /\ a.target \in DOMAIN Rules.LOCKS) =>
          IF Rules.LOCKS[a.target] \in call.trace[i].flags
          THEN call.trace[i + 1].location = a.target
          ELSE call.trace[i + 1].location = call.trace[i].location

\* the flag was set by an earlier atom of the same list, and the move went
\* through
C6_Witness ==
  /\ call.made
  /\ CallAtoms = <<set_flag("has_torch"), move_to("cave")>>
  /\ "has_torch" \notin call.before.flags
  /\ call.before.location = "start"
  /\ call.returned.location = "cave"

\* the sum of the deltas of the hp_delta atoms of a list
RECURSIVE SumDeltas(_)
SumDeltas(atoms) ==
  IF atoms = <<>> THEN 0
  ELSE (IF IsAtom(Head(atoms), "hp_delta") /\ Head(atoms).deltaKind = "int"
        THEN Head(atoms).delta ELSE 0) + SumDeltas(Tail(atoms))

\* the call returned and its hp_delta atoms take hp below zero in sum
DrivenBelowZero ==
  /\ call.made
  /\ ~call.raised
  /\ call.changes.isList
  /\ call.before.hp >= 0
  /\ SumDeltas(CallAtoms) < 0
  /\ call.before.hp + SumDeltas(CallAtoms) < 0

\* C7 as stated: when the hp_delta atoms take hp below zero in sum, the
\* returned state has hp = 0 and hp_zero set.
C7_Original ==
  DrivenBelowZero => call.returned.hp = 0 /\ "hp_zero" \in call.returned.flags

\* C7 as amended: when the hp_delta atoms take hp below zero in sum, the
\* returned state has hp_zero set and hp >= 0, and hp = 0 when no hp_delta
\* atom of the list has a positive delta.
C7_ClampedWithFlag ==
  DrivenBelowZero =>
    /\ "hp_zero" \in call.returned.flags
    /\ call.returned.hp >= 0
    /\ (\A i \in 1..Len(CallAtoms) :
          IsAtom(CallAtoms[i], "hp_delta") => CallAtoms[i].delta <= 0)
       => call.returned.hp = 0

\* hp was clamped by a list without a positive delta, from a state without
\* the flag
C7_Witness ==
  /\ DrivenBelowZero
  /\ "hp_zero" \notin call.before.flags
  /\ call.before.hp > 0
  /\ \A i \in 1..Len(CallAtoms) :
       IsAtom(CallAtoms[i], "hp_delta") => CallAtoms[i].delta <= 0
  /\ call.returned.hp = 0

\* the latest call applied add_item(x) and then remove_item(x)
AddThenRemove(x) ==
  /\ call.made
  /\ call.changes.isList
  /\ CallAtoms = <<add_item(x), remove_item(x)>>

\* C8 as stated: add_item(x) then remove_item(x) in one pass leaves the
\* inventory as it was, whether or not x was held.
C8_Original ==
  \A x \in {"sword", "shield", NoneVal} :
    AddThenRemove(x) => call.returned.inventory = call.before.inventory

\* C8 as amended: add_item(x) then remove_item(x) in one pass leaves the
\* inventory as it was when x was not held before, full inventory or not.
C8_AddRemoveOfAbsent ==
  \A x \in {"sword", "shield", NoneVal} :
    (AddThenRemove(x) /\ ~Contains(call.before.inventory, x)) =>
      call.returned.inventory = call.before.inventory

\* x was absent from a full inventory
C8_Witness ==
  /\ AddThenRemove("sword")
  /\ ~Contains(call.before.inventory, "sword")
  /\ Len(call.before.inventory) = Rules.INVENTORY_LIMIT

\* x was absent and there was room for it
C8_WitnessRoom ==
  /\ AddThenRemove("sword")
  /\ call.before.inventory = <<"shield">>

-----------------------------------------------------------------------------
(* Properties of check_end_conditions, checked under EndSpec *)

TimedOut == state.turns >= MaxTurns
LoseFlagPresent == "hp_zero" \in heap[state.flags]
AllWinFlagsPresent == {"has_torch", "quest_done"} \subseteq heap[state.flags]

\* C4: the status reported is lost when the turn limit is reached, otherwise
\* lost when a lose flag is present, otherwise won when all win flags are
\* present, otherwise ongoing; with all win flags present it is lost, never
\* won, whenever the limit is reached or a lose flag is present.
C4_EndPrecedence ==
  pc \in {"evaluated", "over"} =>
    /\ outcome = IF TimedOut \/ LoseFlagPresent THEN "lose"
                 ELSE IF AllWinFlagsPresent THEN "win"
                 ELSE "None"
    /\ (AllWinFlagsPresent /\ (TimedOut \/ LoseFlagPresent)) => outcome = "lose"

\* all win flags and a lose flag are present before the turn limit, and the
\* status is lost
C4_Witness ==
  /\ pc = "evaluated"
  /\ AllWinFlagsPresent
  /\ LoseFlagPresent
  /\ ~TimedOut
  /\ outcome = "lose"

-----------------------------------------------------------------------------
(* Properties of the turn loop, checked under Spec *)

\* the backend call failed, or its state_change is not a list
Malformed(llm_response) ==
  \/ llm_response.kind = "None"
  \/ llm_response.kind = "dict" /\ ~llm_response.state_change.isList

\* C3: after a failed call or a response whose state_change is not a list,
\* the state is what it was when the backend was called and the loop goes on
\* to its next end check.
C3_MalformedResponseRecovered ==
  [][\A llm_response \in Responses :
       (Malformed(llm_response) /\ BackendReply(llm_response)) =>
         /\ pc' = "loop"
         /\ Deref(state', heap') = Deref(state, heap)]_vars

\* C9: a load command gives the state the value it had at the save command.
C9_SaveLoadRoundTrip ==
  [][(Load /\ saved.taken) => Deref(state', heap') = saved.value]_vars

\* C10: help, inventory, save and an empty line change neither the state nor
\* the position of the loop and do not call the backend; quit leaves the
\* state alone and does not call the backend; load does not call the backend
\* and leaves the state alone or replaces it with the content of save.json.
C10_CommandsTakeNoTurn ==
  [][/\ (EmptyInput \/ Help \/ Inventory \/ Save) =>
          /\ calls' = calls /\ pc' = pc
          /\ state' = state /\ heap' = heap
     /\ Quit =>
          /\ calls' = calls /\ pc' = "quit"
          /\ state' = state /\ heap' = heap
     /\ Load =>
          /\ calls' = calls /\ pc' = pc
          /\ \/ state' = state /\ heap' = heap
             \/ saveFile.exists /\ Deref(state', heap') = saveFile.doc]_vars

\* a save at turn 0, one turn, and a load that brought the counter back
C10_Witness ==
  /\ pc = "loop"
  /\ saved.taken
  /\ calls = 1
  /\ state.turns = 0
  /\ Deref(state, heap) = saveFile.doc

\* C11: a free-text input adds exactly one to the turn counter and the
\* state sent to the backend already carries the new count; the step that
\* handles the response (the only step taken while the backend is awaited),
\* whatever the response is, leaves the counter alone; and the counter
\* changes in no step other than a free-text input, a load or the startup.
C11_TurnCountedOnceBeforeCall ==
  [][/\ FreeText =>
          /\ state'.turns = state.turns + 1
          /\ calls' = calls + 1
          /\ request'.sent /\ request'.state.turns = state.turns + 1
     /\ pc = "backend" => state'.turns = state.turns
     /\ state'.turns # state.turns => (FreeText \/ Load \/ Startup)]_vars

\* the backend call of the first turn failed and the turn is counted
C11_Witness ==
  /\ pc = "crashed"
  /\ calls = 1
  /\ ~call.made
  /\ state.turns = 1
  /\ request.state.turns = 1

\* C12: with rules.json or prompts/gm.txt missing, main exits in a
\* controlled way with no game state created or loaded.
C12_MissingFileControlledExit ==
  (pc # "start" /\ (~files.rules \/ ~files.prompt)) =>
    (pc = "exited" /\ state = NoState)

\* C13: the START template of the rule set keeps the value loaded at
\* startup, in the rule set itself and in what is sent to the backend.
C13_RulesImmutable ==
  /\ heap["START.inventory"] = StartInventory
  /\ heap["START.flags"] = StartFlags
  /\ request.sent =>
       request.rules.START = [inventory |-> StartInventory, flags |-> StartFlags]

-----------------------------------------------------------------------------
(* Applying no atoms *)

NoAtoms == ~call.changes.isList \/ call.changes.atoms = <<>>

\* C14: a call of apply_state_changes whose changes value is an empty list or
\* is not a list does not raise, returns a state equal in every field
\* (location, hp, turns, inventory, flags) to the state passed in, and leaves
\* the state passed in as it was.
C14_NoAtomsIsIdentity ==
  (call.made /\ NoAtoms) =>
    /\ ~call.raised
    /\ call.returned = call.before
    /\ call.argAfter = call.before
    /\ Deref(state, heap) = call.before

\* a non-list value was applied to a state that holds items and flags
C14_Witness ==
  /\ call.made /\ ~call.changes.isList /\ pc = "apply"
  /\ call.before.inventory # <<>> /\ call.before.flags # {}

\* an empty list was applied to a state that holds items and flags
C14_WitnessEmpty ==
  /\ call.made /\ call.changes.isList /\ call.changes.atoms = <<>> /\ pc = "apply"
  /\ call.before.inventory # <<>> /\ call.before.flags # {}

-----------------------------------------------------------------------------
(* Order of application *)

\* state = apply_state_changes(state, A, rules) followed by
\* state = apply_state_changes(state, B, rules), from a state of value v:
\* whether a pass raised, the value returned by the last pass and the value
\* of the dict first passed in
TwoPasses(v, A, B) ==
  LET st == OwnState(v.location, v.hp, v.turns)
      h  == [Heap0 EXCEPT !["state.inventory"] = v.inventory, !["state.flags"] = v.flags]
      r1 == apply_state_changes(st, h, ListOf(A), Rules)
      r2 == apply_state_changes(r1.ret, r1.heap, ListOf(B), Rules)
  IN  IF r1.raised
      THEN [raised |-> TRUE, returned |-> Deref(st, r1.heap), argAfter |-> Deref(st, r1.heap)]
      ELSE [raised |-> r2.raised, returned |-> Deref(r2.ret, r2.heap),
            argAfter |-> Deref(st, r2.heap)]

\* C15: atoms are applied in list order.  For every way of cutting the list
\* of a call into A followed by B, applying A and then B to the result ends
\* as the one pass did: both raise or neither does, the returned states are
\* equal, and so is what became of the dict passed in.  And the limit check
\* of an add_item atom is made on the inventory as the atoms before it left
\* it: the item is appended exactly when that inventory is below the limit
\* and does not hold it.
C15_AppliedInOrder ==
  (call.made /\ call.changes.isList) =>
    /\ \A k \in 0..Len(CallAtoms) :
         LET two == TwoPasses(call.before, SubSeq(CallAtoms, 1, k),
                              SubSeq(CallAtoms, k + 1, Len(CallAtoms)))
         IN  /\ two.raised = call.raised
             /\ ~call.raised => two.returned = call.returned
             /\ two.argAfter = call.argAfter
    /\ \A i \in Processed :
         LET a == CallAtoms[i]
         IN  IsAtom(a, "add_item") =>
               call.trace[i + 1].inventory =
                 IF /\ Len(call.trace[i].inventory) < Rules.INVENTORY_LIMIT
                    /\ ~Contains(call.trace[i].inventory, a.item)
                 THEN Append(call.trace[i].inventory, a.item)
                 ELSE call.trace[i].inventory

\* the second add_item of the list was refused because the first one had
\* filled the inventory
C15_Witness ==
  /\ call.made /\ ~call.raised
  /\ CallAtoms = <<add_item("sword"), add_item("shield")>>
  /\ Len(call.before.inventory) = Rules.INVENTORY_LIMIT - 1
  /\ ~Contains(call.before.inventory, "sword")
  /\ ~Contains(call.before.inventory, "shield")
  /\ call.returned.inventory = Append(call.before.inventory, "sword")

-----------------------------------------------------------------------------
(* Malformed atoms *)

\* an atom that is no dict, an atom of unknown kind, or a move_to, add_item
\* or set_flag atom without its target, item or flag
MalformedAtom(a) ==
  \/ ~a.isDict
  \/ a.atom \notin {"move_to", "add_item", "remove_item", "set_flag", "hp_delta"}
  \/ a.atom = "move_to" /\ a.target = NoneVal
  \/ a.atom = "add_item" /\ a.item = NoneVal
  \/ a.atom = "set_flag" /\ a.flag = NoneVal

\* C16: a malformed atom that is processed leaves location, hp, inventory
\* and flags as they were before it (turns is not touched by any atom), and
\* the atoms after it are still processed.
C16_MalformedAtomSkipped ==
  call.made =>
    /\ call.returned.turns = call.before.turns \/ call.raised
    /\ \A i \in Processed :
         MalformedAtom(CallAtoms[i]) =>
           /\ call.trace[i + 1] = call.trace[i]
           /\ i < Len(CallAtoms) => (i + 1) \in Processed

-----------------------------------------------------------------------------
(* Flags and hp under atom application *)

\* C17: flags are only ever added by a pass: no atom that is processed takes
\* a flag away, so every flag of the state passed in is a flag of the state
\* returned, of the dict passed in after the call (also when the call
\* raised) and of the state the caller goes on with.
C17_FlagsAddOnly ==
  call.made =>
    /\ \A i \in Processed : call.trace[i].flags \subseteq call.trace[i + 1].flags
    /\ ~call.raised => call.before.flags \subseteq call.returned.flags
    /\ call.before.flags \subseteq call.argAfter.flags
    /\ call.before.flags \subseteq Deref(state, heap).flags

\* a pass that clamped hp added hp_zero to the flags already held
C17_Witness ==
  /\ call.made /\ ~call.raised
  /\ "has_torch" \in call.before.flags /\ "hp_zero" \notin call.before.flags
  /\ call.returned.flags = call.before.flags \cup {"hp_zero"}

\* atom i of the latest call is an hp_delta atom that left hp at 0
LeftHpAtZero(i) ==
  /\ IsAtom(CallAtoms[i], "hp_delta")
  /\ ~call.trace[i + 1].raised
  /\ call.trace[i + 1].hp = 0

\* C18: hp is never negative: not in the state between passes, not in any
\* configuration a pass goes through, not in the state returned.  And when
\* an hp_delta atom leaves hp at exactly 0, hp_zero is set from that atom on
\* and in the state returned.
C18_HpNeverNegative ==
  /\ state.hp >= 0
  /\ call.made =>
       /\ \A i \in 1..Len(call.trace) : call.trace[i].hp >= 0
       /\ call.returned.hp >= 0
       /\ \A i \in Processed :
            LeftHpAtZero(i) =>
              /\ \A j \in (i + 1)..Len(call.trace) : "hp_zero" \in call.trace[j].flags
              /\ ~call.raised => "hp_zero" \in call.returned.flags

\* one hp_delta atom took a healthy state without hp_zero down to hp 0
C18_Witness ==
  /\ call.made /\ ~call.raised
  /\ Len(CallAtoms) = 1 /\ LeftHpAtZero(1)
  /\ call.before.hp = HpMax /\ "hp_zero" \notin call.before.flags
  /\ call.returned.hp = 0 /\ "hp_zero" \in call.returned.flags

\* C20: hp_zero is sticky.  When a pass that returns met hp_zero in its
\* input or clamped hp to 0 at one of its atoms, the state returned has
\* hp_zero, whatever its hp, and check_end_conditions on that state reports
\* the game lost by a losing flag.
C20_HpZeroSticky ==
  (call.made /\ ~call.raised) =>
    (("hp_zero" \in call.before.flags \/ \E i \in Processed : LeftHpAtZero(i)) =>
       /\ "hp_zero" \in call.returned.flags
       /\ "hp_zero" \in Deref(state, heap).flags
       /\ check_end_conditions(Deref(state, heap), Rules) =
            [status |-> "lose", message |-> "losing condition"])

\* hp was clamped to 0 and raised again by a later atom of the same pass:
\* hp_zero is set although hp > 0
C20_Witness ==
  /\ call.made /\ ~call.raised
  /\ "hp_zero" \notin call.before.flags
  /\ \E i \in Processed : LeftHpAtZero(i)
  /\ call.returned.hp > 0 /\ "hp_zero" \in call.returned.flags

\* hp was raised above 0 by a pass later than the one that set hp_zero
C20_WitnessLaterPass ==
  /\ call.made /\ ~call.raised
  /\ "hp_zero" \in call.before.flags /\ call.before.hp = 0
  /\ call.returned.hp > 0 /\ "hp_zero" \in call.returned.flags

-----------------------------------------------------------------------------
(* The turn limit *)

\* the session started from rules["START"] and no load has replaced its
\* state: the state still holds the list of the START template
FreshUnloaded == pc \notin {"start", "exited"} /\ state.inventory = "START.inventory"

\* the state the loop head checked before the input of the current turn was
\* read: the current state without the increment of line 265
StateAtPrompt == [Deref(state, heap) EXCEPT !.turns = @ - 1]

C19_WitnessLoad ==
  /\ ~FreshUnloaded /\ pc = "backend"
  /\ calls > Rules.END_CONDITIONS.MAX_TURNS

====
